---- MODULE Spec2Model ----
(***************************************************************************)
(* Users component of the REST API: the six request handlers of           *)
(* users-controller.js and the joi schemas of users-validator.js.         *)
(*                                                                         *)
(* Each handler is an async function: it runs synchronously up to an      *)
(* `await usersService.x(...)`, is suspended there, and resumes when the  *)
(* service call returns or throws.  One action models one such segment.   *)
(* Several requests may be suspended at the same time, so the segments of *)
(* different requests interleave around the shared service state.         *)
(***************************************************************************)
EXTENDS Integers, Sequences, FiniteSets, TLC

VARIABLES
  users,     \* service state: id -> stored user record, or Null
  pc,        \* request -> position of its handler
  req,       \* request -> [op, id, body] as received by the handler
  calls,     \* request -> sequence of usersService calls made for it
  sent,      \* request -> sequence of response.status(s).json(b) made
  nexted,    \* request -> sequence of errors passed to next(error)
  rejected,  \* request -> sequence of errors that escaped the handler
  schemaOp,      \* schema under validation ("none" before any)
  schemaBody,    \* body handed to the schema
  schemaVerdict  \* fields of schemaBody that violate their rule

vars == <<users, pc, req, calls, sent, nexted, rejected, schemaOp, schemaBody, schemaVerdict>>
handlerVars == <<users, pc, req, calls, sent, nexted, rejected>>
schemaVars == <<schemaOp, schemaBody, schemaVerdict>>

----------------------------------------------------------------------------
(* Bounds of the model *)

\* number of user ids the service can hold
MaxUsers == 2
\* longest string handed to a schema
MaxStrLen == 101
\* longest string over the email alphabet enumerated exhaustively
MaxEmailLen == 3

(* Limits written in the schemas *)
NameMin == 1
NameMax == 100
PasswordMin == 6
PasswordMax == 32

----------------------------------------------------------------------------
(* JavaScript values *)

Undefined == [t |-> "undefined"]
Null == [t |-> "null"]
Num == [t |-> "number"]
Str(s) == [t |-> "string", v |-> s]
IsString(x) == x.t = "string"

\* request.params.id naming user i
UserId(i) == [t |-> "id", v |-> i]

Rep(c, n) == [i \in 1..n |-> c]

Requests == {"r1", "r2"}
Ids == 1..MaxUsers

Alice == Str(<<"A", "l", "i", "c", "e">>)
Bob == Str(<<"B", "o", "b">>)
EmailA == Str(<<"a", "@", "x", ".", "c", "o", "m">>)
EmailB == Str(<<"b", "@", "x", ".", "c", "o", "m">>)
PwA == Str(<<"a", "b", "c", "d", "e", "f">>)
PwB == Str(<<"s", "e", "c", "r", "e", "t", "1">>)

\* the second name is one the create and update schemas reject
ReqNames == {Bob, Str(<<>>)}
ReqEmails == {EmailA, EmailB}
ReqPasswords == {PwA, PwB}
ReqOptPasswords == {Undefined, PwA, PwB}

----------------------------------------------------------------------------
(* core/errors *)

errorResponder(kind, message) == [kind |-> kind, message |-> message]

\* what an awaited service call rejects with when the service layer fails
ServiceException == [kind |-> "SERVICE_EXCEPTION", message |-> "service failure"]

----------------------------------------------------------------------------
(* users-service, as the controller uses it.  Each operator gives what the *)
(* call returns in service state u; the mutating ones also give the state  *)
(* they leave.                                                             *)

UserRecord(name, email, password) == [name |-> name, email |-> email, password |-> password]

Registered(u) == {id \in Ids : u[id] # Null}

svcGetUsers(u) == SelectSeq([i \in Ids |-> u[i]], LAMBDA x : x # Null)

svcGetUser(u, id) == u[id.v]

svcCheckUserEmail(u, email) == \E id \in Registered(u) : u[id].email = email

svcCheckLoginCredential(u, id, password) ==
  id.v \in Registered(u) /\ u[id.v].password = password

svcCreateUser(u, name, email, password) ==
  IF Registered(u) = Ids
    THEN [value |-> FALSE, users |-> u]
    ELSE LET id == CHOOSE i \in Ids \ Registered(u) : \A j \in Ids \ Registered(u) : i <= j
         IN [value |-> TRUE, users |-> [u EXCEPT ![id] = UserRecord(name, email, password)]]

svcUpdateUser(u, id, name, email) ==
  IF id.v \notin Registered(u)
    THEN [value |-> FALSE, users |-> u]
    ELSE [value |-> TRUE, users |-> [u EXCEPT ![id.v].name = name, ![id.v].email = email]]

svcPatchUser(u, id, oldpassword, newpassword) ==
  IF id.v \notin Registered(u)
    THEN [value |-> FALSE, users |-> u]
    ELSE [value |-> TRUE, users |-> [u EXCEPT ![id.v].password = newpassword]]

svcDeleteUser(u, id) ==
  IF id.v \notin Registered(u)
    THEN [value |-> FALSE, users |-> u]
    ELSE [value |-> TRUE, users |-> [u EXCEPT ![id.v] = Null]]

\* a mutating call that reports failure and changes nothing
svcFailed(u) == [value |-> FALSE, users |-> u]

----------------------------------------------------------------------------
(* What a handler segment ends with *)

Throw(error) == [kind |-> "throw", error |-> error]
Await(fn, args, resume) == [kind |-> "await", fn |-> fn, args |-> args, resume |-> resume]
Respond(status, json) == [kind |-> "respond", status |-> status, json |-> json]
PassToNext(error) == [kind |-> "next", error |-> error]
Escape(error) == [kind |-> "reject", error |-> error]

Pending == [t |-> "pending"]
Returned(v) == [t |-> "returned", v |-> v]
Threw == [t |-> "threw"]

\* mutation: the error leaves the handler instead of reaching next
catchNext_rethrow(error) == Escape(error)

\* catch (error) { return next(error); }
catchNext(error) == PassToNext(error)

----------------------------------------------------------------------------
(* The handlers, one operator per synchronous segment *)

getUsers_entry == Await("getUsers", <<>>, "getUsers_13")

getUsers_13(usersList) == Respond(200, usersList)

getUser_entry(request) == Await("getUser", <<request.id>>, "getUser_29")

\* mutation: the missing-record check is dropped
getUser_29_noNullCheck(user) == Respond(200, user)

getUser_29(user) ==
  IF user = Null
    THEN Throw(errorResponder("UNPROCESSABLE_ENTITY", "Unknown user"))
    ELSE Respond(200, user)

\* mutation: the password confirmation guard is dropped
createUser_entry_noConfirmGuard(request) ==
  Await("checkUserEmail", <<request.body.email>>, "createUser_62")

createUser_entry(request) ==
  IF request.body.confirmpassword # request.body.password
    THEN Throw(errorResponder("INVALID_PASSWORD", "Passwords did not match"))
    ELSE Await("checkUserEmail", <<request.body.email>>, "createUser_62")

\* mutation: the user is created before the lookup's result is looked at
createUser_62_createFirst(request, emailExists) ==
  Await("createUser",
        <<request.body.name, request.body.email, request.body.password>>,
        "createUser_70")

createUser_62(request, emailExists) ==
  IF emailExists
    THEN Throw(errorResponder("EMAIL_ALREADY_TAKEN", "Email already taken"))
    ELSE Await("createUser",
               <<request.body.name, request.body.email, request.body.password>>,
               "createUser_70")

createUser_70(request, success) ==
  IF ~success
    THEN Throw(errorResponder("UNPROCESSABLE_ENTITY", "Failed to create user"))
    ELSE Respond(200, [name |-> request.body.name, email |-> request.body.email])

\* mutation: a body without a confirm password is treated as a mismatch
updateUser_entry_confirmRequired(request) ==
  IF request.body.confirmpassword = Undefined
       \/ request.body.confirmpassword # request.body.password
    THEN Throw(errorResponder("INVALID_PASSWORD", "Passwords did not match"))
    ELSE Await("checkUserEmail", <<request.body.email>>, "updateUser_106")

updateUser_entry(request) ==
  IF request.body.confirmpassword # request.body.password
    THEN Throw(errorResponder("INVALID_PASSWORD", "Passwords did not match"))
    ELSE Await("checkUserEmail", <<request.body.email>>, "updateUser_106")

\* mutation: the email-taken guard is inverted
updateUser_106_invertedGuard(request, emailExists) ==
  IF ~emailExists
    THEN Throw(errorResponder("EMAIL_ALREADY_TAKEN", "Email already taken"))
    ELSE Await("updateUser",
               <<request.id, request.body.name, request.body.email>>,
               "updateUser_114")

updateUser_106(request, emailExists) ==
  IF emailExists
    THEN Throw(errorResponder("EMAIL_ALREADY_TAKEN", "Email already taken"))
    ELSE Await("updateUser",
               <<request.id, request.body.name, request.body.email>>,
               "updateUser_114")

updateUser_114(request, success) ==
  IF ~success
    THEN Throw(errorResponder("UNPROCESSABLE_ENTITY", "Failed to update user"))
    ELSE Respond(200, [id |-> request.id])

patchUser_entry(request) ==
  Await("checkLoginCredential", <<request.id, request.body.oldpassword>>, "patchUser_135")

\* mutation: the same-as-old guard comes before the confirmation guard
patchUser_135_swappedGuards(request, check) ==
  IF check
    THEN Throw(errorResponder("INVALID_PASSWORD", "Wrong password!"))
  ELSE IF request.body.oldpassword = request.body.newpassword
    THEN Throw(errorResponder("UNPROCESSABLE_ENTITY",
                 "Your new password cant be the same as the old one!"))
  ELSE IF request.body.newpassword # request.body.confirmnewpassword
    THEN Throw(errorResponder("INVALID_PASSWORD",
                 "Your new password doesnt match the confirm new password!"))
  ELSE Await("patchUser",
             <<request.id, request.body.oldpassword, request.body.confirmnewpassword>>,
             "patchUser_158")

patchUser_135(request, check) ==
  IF check
    THEN Throw(errorResponder("INVALID_PASSWORD", "Wrong password!"))
  ELSE IF request.body.newpassword # request.body.confirmnewpassword
    THEN Throw(errorResponder("INVALID_PASSWORD",
                 "Your new password doesnt match the confirm new password!"))
  ELSE IF request.body.oldpassword = request.body.newpassword
    THEN Throw(errorResponder("UNPROCESSABLE_ENTITY",
                 "Your new password cant be the same as the old one!"))
  ELSE Await("patchUser",
             <<request.id, request.body.oldpassword, request.body.confirmnewpassword>>,
             "patchUser_158")

patchUser_158(request, checking) ==
  IF ~checking
    THEN Throw(errorResponder("INVALID_CREDENTIALS", "Fail to patch user"))
    ELSE Respond(200, [id |-> request.id])

deleteUser_entry(request) == Await("deleteUser", <<request.id>>, "deleteUser_182")

deleteUser_182(request, success) ==
  IF ~success
    THEN Throw(errorResponder("UNPROCESSABLE_ENTITY", "Failed to delete user"))
    ELSE Respond(200, [id |-> request.id])

----------------------------------------------------------------------------
(* Running a segment: a throw inside the try block goes to the catch       *)
(* clause; an await records the call and suspends the handler.             *)

Settle(r, step, log) ==
  LET s == IF step.kind = "throw" THEN catchNext(step.error) ELSE step IN
  /\ calls' = [calls EXCEPT ![r] =
                 IF s.kind = "await"
                   THEN Append(log, [fn |-> s.fn, args |-> s.args, result |-> Pending])
                   ELSE log]
  /\ sent' = [sent EXCEPT ![r] =
                IF s.kind = "respond" THEN Append(@, [status |-> s.status, json |-> s.json]) ELSE @]
  /\ nexted' = [nexted EXCEPT ![r] = IF s.kind = "next" THEN Append(@, s.error) ELSE @]
  /\ rejected' = [rejected EXCEPT ![r] = IF s.kind = "reject" THEN Append(@, s.error) ELSE @]
  /\ pc' = [pc EXCEPT ![r] = IF s.kind = "await" THEN s.resume ELSE "done"]

\* the log of r with its pending call completed
Completed(r, result) == [calls[r] EXCEPT ![Len(calls[r])].result = result]

\* the handler is invoked with a request
Invoke(r, request, step) ==
  /\ req' = [req EXCEPT ![r] = request]
  /\ Settle(r, step, <<>>)
  /\ UNCHANGED <<users, schemaVars>>

\* the awaited call rejects: the await throws inside the try block
Rejects(r) ==
  /\ Settle(r, Throw(ServiceException), Completed(r, Threw))
  /\ UNCHANGED <<users, req, schemaVars>>

\* the awaited read-only call returns value
Returns(r, value, step) ==
  /\ Settle(r, step, Completed(r, Returned(value)))
  /\ UNCHANGED <<users, req, schemaVars>>

\* the awaited mutating call returns out.value and leaves the state out.users
Mutates(r, out, step) ==
  /\ Settle(r, step, Completed(r, Returned(out.value)))
  /\ users' = out.users
  /\ UNCHANGED <<req, schemaVars>>

----------------------------------------------------------------------------
(* Requests the handlers are invoked with *)

NoRequest == [op |-> "none", id |-> Undefined, body |-> Undefined]

GetUsersRequests == {[op |-> "getUsers", id |-> Undefined, body |-> Undefined]}

GetUserRequests == {[op |-> "getUser", id |-> UserId(i), body |-> Undefined] : i \in Ids}

CreateUserRequests ==
  {[op |-> "createUser", id |-> Undefined,
    body |-> [name |-> n, email |-> e, password |-> p, confirmpassword |-> c]] :
     n \in ReqNames, e \in ReqEmails, p \in ReqPasswords, c \in ReqPasswords}

\* request.body.password of a body without that field is undefined
UpdateUserRequests ==
  {[op |-> "updateUser", id |-> UserId(i),
    body |-> [name |-> n, email |-> e, password |-> p, confirmpassword |-> c]] :
     i \in Ids, n \in ReqNames, e \in ReqEmails, p \in {Undefined, PwA}, c \in ReqOptPasswords}

PatchUserRequests ==
  {[op |-> "patchUser", id |-> UserId(i),
    body |-> [oldpassword |-> o, newpassword |-> n, confirmnewpassword |-> c]] :
     i \in Ids, o \in ReqPasswords, n \in ReqPasswords, c \in ReqPasswords}

DeleteUserRequests == {[op |-> "deleteUser", id |-> UserId(i), body |-> Undefined] : i \in Ids}

----------------------------------------------------------------------------
(* Actions: the invocation of a handler and each of its resumptions *)

getUsers(r) ==
  /\ pc[r] = "idle"
  /\ \E q \in GetUsersRequests : Invoke(r, q, getUsers_entry)

Resume_getUsers_13(r) ==
  /\ pc[r] = "getUsers_13"
  /\ \/ Returns(r, svcGetUsers(users), getUsers_13(svcGetUsers(users)))
     \/ Rejects(r)

getUser(r) ==
  /\ pc[r] = "idle"
  /\ \E q \in GetUserRequests : Invoke(r, q, getUser_entry(q))

Resume_getUser_29(r) ==
  /\ pc[r] = "getUser_29"
  /\ \/ Returns(r, svcGetUser(users, req[r].id), getUser_29(svcGetUser(users, req[r].id)))
     \/ Rejects(r)

createUser(r) ==
  /\ pc[r] = "idle"
  /\ \E q \in CreateUserRequests : Invoke(r, q, createUser_entry(q))

Resume_createUser_62(r) ==
  /\ pc[r] = "createUser_62"
  /\ LET emailExists == svcCheckUserEmail(users, req[r].body.email) IN
     \/ Returns(r, emailExists, createUser_62(req[r], emailExists))
     \/ Rejects(r)

Resume_createUser_70(r) ==
  /\ pc[r] = "createUser_70"
  /\ LET b == req[r].body IN
     \/ \E out \in {svcCreateUser(users, b.name, b.email, b.password), svcFailed(users)} :
          Mutates(r, out, createUser_70(req[r], out.value))
     \/ Rejects(r)

updateUser(r) ==
  /\ pc[r] = "idle"
  /\ \E q \in UpdateUserRequests : Invoke(r, q, updateUser_entry(q))

Resume_updateUser_106(r) ==
  /\ pc[r] = "updateUser_106"
  /\ LET emailExists == svcCheckUserEmail(users, req[r].body.email) IN
     \/ Returns(r, emailExists, updateUser_106(req[r], emailExists))
     \/ Rejects(r)

Resume_updateUser_114(r) ==
  /\ pc[r] = "updateUser_114"
  /\ LET b == req[r].body IN
     \/ \E out \in {svcUpdateUser(users, req[r].id, b.name, b.email), svcFailed(users)} :
          Mutates(r, out, updateUser_114(req[r], out.value))
     \/ Rejects(r)

patchUser(r) ==
  /\ pc[r] = "idle"
  /\ \E q \in PatchUserRequests : Invoke(r, q, patchUser_entry(q))

Resume_patchUser_135(r) ==
  /\ pc[r] = "patchUser_135"
  /\ LET check == svcCheckLoginCredential(users, req[r].id, req[r].body.oldpassword) IN
     \/ Returns(r, check, patchUser_135(req[r], check))
     \/ Rejects(r)

Resume_patchUser_158(r) ==
  /\ pc[r] = "patchUser_158"
  /\ LET b == req[r].body IN
     \/ \E out \in {svcPatchUser(users, req[r].id, b.oldpassword, b.confirmnewpassword),
                    svcFailed(users)} :
          Mutates(r, out, patchUser_158(req[r], out.value))
     \/ Rejects(r)

deleteUser(r) ==
  /\ pc[r] = "idle"
  /\ \E q \in DeleteUserRequests : Invoke(r, q, deleteUser_entry(q))

Resume_deleteUser_182(r) ==
  /\ pc[r] = "deleteUser_182"
  /\ \/ \E out \in {svcDeleteUser(users, req[r].id), svcFailed(users)} :
          Mutates(r, out, deleteUser_182(req[r], out.value))
     \/ Rejects(r)

----------------------------------------------------------------------------

InitUsers == [i \in Ids |-> IF i = 1 THEN UserRecord(Alice, EmailA, PwA) ELSE Null]

InitHandlers ==
  /\ users = InitUsers
  /\ pc = [r \in Requests |-> "idle"]
  /\ req = [r \in Requests |-> NoRequest]
  /\ calls = [r \in Requests |-> <<>>]
  /\ sent = [r \in Requests |-> <<>>]
  /\ nexted = [r \in Requests |-> <<>>]
  /\ rejected = [r \in Requests |-> <<>>]

InitSchema ==
  /\ schemaOp = "none"
  /\ schemaBody = Undefined
  /\ schemaVerdict = {}

Init == InitHandlers /\ InitSchema

Resume(r) ==
  \/ Resume_getUsers_13(r)
  \/ Resume_getUser_29(r)
  \/ Resume_createUser_62(r)
  \/ Resume_createUser_70(r)
  \/ Resume_updateUser_106(r)
  \/ Resume_updateUser_114(r)
  \/ Resume_patchUser_135(r)
  \/ Resume_patchUser_158(r)
  \/ Resume_deleteUser_182(r)

Next ==
  \E r \in Requests :
    \/ getUsers(r)
    \/ getUser(r)
    \/ createUser(r)
    \/ updateUser(r)
    \/ patchUser(r)
    \/ deleteUser(r)
    \/ Resume(r)

Spec == Init /\ [][Next]_vars

\* every awaited service call eventually returns or throws
FairSpec == Spec /\ \A r \in Requests : WF_vars(Resume(r))

----------------------------------------------------------------------------
(* users-validator: the joi rules.  Each rule is a predicate on the value  *)
(* of one body field; a schema gives the set of fields whose rule the body *)
(* violates, and accepts the body when that set is empty.                  *)

\* joi.string().min(1).max(100).required()
nameRule(x) == IsString(x) /\ Len(x.v) >= NameMin /\ Len(x.v) <= NameMax

\* mutation: the upper limit is exclusive
passwordRule_exclusiveMax(x) ==
  IsString(x) /\ Len(x.v) >= PasswordMin /\ Len(x.v) < PasswordMax

\* joi.string().min(6).max(32).required()
passwordRule(x) == IsString(x) /\ Len(x.v) >= PasswordMin /\ Len(x.v) <= PasswordMax

Tlds == {<<"c", "o", "m">>}

\* a dot-separated sequence of non-empty segments
DotAtoms(s) ==
  /\ Len(s) > 0
  /\ s[1] # "." /\ s[Len(s)] # "."
  /\ \A i \in 1..(Len(s) - 1) : ~(s[i] = "." /\ s[i + 1] = ".")

LastSegment(s) ==
  LET dots == {i \in 1..Len(s) : s[i] = "."}
      last == CHOOSE i \in dots : \A j \in dots : j <= i
  IN SubSeq(s, last + 1, Len(s))

IsEmailAddress(s) ==
  LET ats == {i \in 1..Len(s) : s[i] = "@"} IN
  /\ Cardinality(ats) = 1
  /\ LET at == CHOOSE i \in ats : TRUE
         local == SubSeq(s, 1, at - 1)
         domain == SubSeq(s, at + 1, Len(s))
     IN /\ DotAtoms(local)
        /\ DotAtoms(domain)
        /\ \E i \in 1..Len(domain) : domain[i] = "."
        /\ LastSegment(domain) \in Tlds

\* joi.string().email().required()
emailRule(x) == IsString(x) /\ IsEmailAddress(x.v)

createUserSchema(body) ==
  {f \in {"name"} : ~nameRule(body.name)}
    \cup {f \in {"email"} : ~emailRule(body.email)}
    \cup {f \in {"password"} : ~passwordRule(body.password)}
    \cup {f \in {"confirmpassword"} : ~passwordRule(body.confirmpassword)}

updateUserSchema(body) ==
  {f \in {"name"} : ~nameRule(body.name)}
    \cup {f \in {"email"} : ~emailRule(body.email)}

patchUserSchema(body) ==
  {f \in {"oldpassword"} : ~passwordRule(body.oldpassword)}
    \cup {f \in {"newpassword"} : ~passwordRule(body.newpassword)}
    \cup {f \in {"confirmnewpassword"} : ~passwordRule(body.confirmnewpassword)}

(* Bodies handed to the schemas *)

RECURSIVE SeqsUpTo(_, _)
SeqsUpTo(alphabet, n) ==
  IF n = 0 THEN {<<>>}
  ELSE LET shorter == SeqsUpTo(alphabet, n - 1)
       IN shorter \cup {Append(s, c) : s \in shorter, c \in alphabet}

LengthSamples == {Undefined, Num} \cup {Str(Rep("a", n)) : n \in 0..MaxStrLen}

EmailSamples ==
  {Undefined, Num, EmailA, EmailB,
   Str(<<"a", "x", ".", "c", "o", "m">>),
   Str(<<"a", "@", "@", "x", ".", "c", "o", "m">>),
   Str(<<"@", "x", ".", "c", "o", "m">>),
   Str(<<"a", "@", "c", "o", "m">>),
   Str(<<"a", "@", "x", ".", "a">>),
   Str(<<"a", ".", "b", "@", "x", ".", "c", "o", "m">>)}
    \cup {Str(s) : s \in SeqsUpTo({"a", "@", "."}, MaxEmailLen)}

PasswordPairs == {PwA, PwB, Str(Rep("a", 5)), Str(Rep("a", 33))}

CreateBodies ==
  {[name |-> n, email |-> EmailA, password |-> PwA, confirmpassword |-> PwA] : n \in LengthSamples}
    \cup {[name |-> Alice, email |-> e, password |-> PwA, confirmpassword |-> PwB] : e \in EmailSamples}
    \cup {[name |-> Alice, email |-> EmailA, password |-> p, confirmpassword |-> c] :
            p \in LengthSamples, c \in PasswordPairs}
    \cup {[name |-> Alice, email |-> EmailA, password |-> p, confirmpassword |-> c] :
            p \in PasswordPairs, c \in LengthSamples}

UpdateBodies ==
  {[name |-> n, email |-> e] : n \in LengthSamples, e \in {EmailA, Str(<<"a", "x">>)}}
    \cup {[name |-> n, email |-> e] : n \in {Alice, Str(<<>>)}, e \in EmailSamples}

PatchBodies ==
  {[oldpassword |-> o, newpassword |-> n, confirmnewpassword |-> c] :
     o \in LengthSamples, n \in {PwA, PwB}, c \in {PwA}}
    \cup {[oldpassword |-> o, newpassword |-> n, confirmnewpassword |-> c] :
            o \in {PwA}, n \in LengthSamples, c \in {PwA, PwB}}
    \cup {[oldpassword |-> o, newpassword |-> n, confirmnewpassword |-> c] :
            o \in {PwA, PwB}, n \in {PwA}, c \in LengthSamples}

Validate(op, body, violations) ==
  /\ schemaOp' = op
  /\ schemaBody' = body
  /\ schemaVerdict' = violations
  /\ UNCHANGED handlerVars

ValidateCreateUser ==
  /\ schemaOp = "none"
  /\ \E body \in CreateBodies : Validate("createUser", body, createUserSchema(body))

ValidateUpdateUser ==
  /\ schemaOp = "none"
  /\ \E body \in UpdateBodies : Validate("updateUser", body, updateUserSchema(body))

ValidatePatchUser ==
  /\ schemaOp = "none"
  /\ \E body \in PatchBodies : Validate("patchUser", body, patchUserSchema(body))

SchemaNext == ValidateCreateUser \/ ValidateUpdateUser \/ ValidatePatchUser

SchemaSpec == Init /\ [][SchemaNext]_vars

----------------------------------------------------------------------------
(* Vocabulary of the properties *)

Started(r) == pc[r] # "idle"
Done(r) == pc[r] = "done"
Mutations == {"createUser", "updateUser", "patchUser", "deleteUser"}
CallIndexes(r) == 1..Len(calls[r])
Called(r, fn) == \E i \in CallIndexes(r) : calls[r][i].fn = fn
MutationCalls(r) == {i \in CallIndexes(r) : calls[r][i].fn \in Mutations}
Outcomes(r) == Len(sent[r]) + Len(nexted[r]) + Len(rejected[r])

\* r ended with exactly one error, of this kind, passed to next
EndsWithError(r, kind) ==
  /\ Done(r)
  /\ sent[r] = <<>> /\ rejected[r] = <<>>
  /\ Len(nexted[r]) = 1 /\ nexted[r][1].kind = kind

\* r ended with exactly one response, status 200 and this body
EndsWith200(r, json) ==
  /\ Done(r)
  /\ nexted[r] = <<>> /\ rejected[r] = <<>>
  /\ sent[r] = <<[status |-> 200, json |-> json]>>

PasswordsDiffer(r) == req[r].body.confirmpassword # req[r].body.password

----------------------------------------------------------------------------
\* C1: a createUser or updateUser request whose confirm-password differs
\* from its password ends with INVALID_PASSWORD, and no service mutation
\* (createUser, updateUser, or any other) is called for it.
C1_MismatchEndsInvalidPassword ==
  \A r \in Requests :
    (Started(r) /\ req[r].op \in {"createUser", "updateUser"} /\ PasswordsDiffer(r))
      => /\ EndsWithError(r, "INVALID_PASSWORD")
         /\ MutationCalls(r) = {}

C1_Witness ==
  \E r1, r2 \in Requests :
    /\ Done(r1) /\ req[r1].op = "createUser" /\ PasswordsDiffer(r1)
    /\ Done(r2) /\ req[r2].op = "updateUser" /\ PasswordsDiffer(r2)

\* C2: a createUser or updateUser request whose email-exists lookup returns
\* true ends with EMAIL_ALREADY_TAKEN whatever its other fields are, and the
\* create/update service mutation is not called.
C2_RegisteredEmailEndsTaken ==
  \A r \in Requests :
    (Started(r) /\ req[r].op \in {"createUser", "updateUser"})
      => \A i \in CallIndexes(r) :
           (calls[r][i].fn = "checkUserEmail" /\ calls[r][i].result = Returned(TRUE))
             => /\ EndsWithError(r, "EMAIL_ALREADY_TAKEN")
                /\ MutationCalls(r) = {}

\* both handlers, one of them with a name the schema would reject
C2_Witness ==
  \E r1, r2 \in Requests :
    /\ req[r1].op = "createUser" /\ req[r2].op = "updateUser"
    /\ req[r1].body.name = Str(<<>>) /\ req[r2].body.name = Bob
    /\ \A r \in {r1, r2} :
         /\ EndsWithError(r, "EMAIL_ALREADY_TAKEN")
         /\ Len(calls[r]) = 1
         /\ calls[r][1].result = Returned(TRUE)

AllThreeEqual(r) ==
  /\ req[r].body.newpassword = req[r].body.confirmnewpassword
  /\ req[r].body.oldpassword = req[r].body.newpassword
  /\ patchUserSchema(req[r].body) = {}

\* C3: a patchUser request whose newPassword, confirmNewPassword
\* and oldPassword are all equal (each within the schema) ends with
\* UNPROCESSABLE_ENTITY once its credential check has returned, and the patch
\* service is never called for it.
C3_AllEqualEndsUnprocessable ==
  \A r \in Requests :
    (Done(r) /\ req[r].op = "patchUser" /\ AllThreeEqual(r) /\ calls[r][1].result # Threw)
      => /\ EndsWithError(r, "UNPROCESSABLE_ENTITY")
         /\ ~Called(r, "patchUser")

\* C4: patchUser calls the patch service only when oldPassword verified
\* against the stored credential (checkLoginCredential returned true), and a
\* request whose oldPassword did not verify ends with INVALID_PASSWORD
\* without reaching the patch service.
C4_PatchOnlyWhenVerified ==
  \A r \in Requests :
    (Started(r) /\ req[r].op = "patchUser")
      => /\ Called(r, "patchUser") => calls[r][1].result = Returned(TRUE)
         /\ calls[r][1].result = Returned(FALSE)
              => EndsWithError(r, "INVALID_PASSWORD") /\ ~Called(r, "patchUser")

\* the guards of r's handler that come before its service mutation passed
GuardsPassed(r) ==
  LET b == req[r].body IN
  CASE req[r].op \in {"createUser", "updateUser"} ->
         /\ b.confirmpassword = b.password
         /\ Len(calls[r]) = 2
         /\ calls[r][1].fn = "checkUserEmail" /\ calls[r][1].result = Returned(FALSE)
    [] req[r].op = "patchUser" ->
         /\ Len(calls[r]) = 2
         /\ calls[r][1].fn = "checkLoginCredential" /\ calls[r][1].result = Returned(FALSE)
         /\ b.newpassword = b.confirmnewpassword
         /\ b.oldpassword # b.newpassword
    [] req[r].op = "deleteUser" -> Len(calls[r]) = 1
    [] OTHER -> FALSE

C5_State ==
  \A r \in Requests :
    /\ Cardinality(MutationCalls(r)) <= 1
    /\ \A i \in MutationCalls(r) :
         /\ i = Len(calls[r])
         /\ calls[r][i].fn = req[r].op
         /\ GuardsPassed(r)
    /\ Done(r) => \A i \in CallIndexes(r) : calls[r][i].result # Pending

C5_Step ==
  \A r \in Requests :
    (Done(r) \/ nexted[r] # <<>>) => (calls'[r] = calls[r] /\ pc'[r] = pc[r])

\* C5: in every handler the service mutation is called at most once per
\* request and only after every earlier guard of the handler has passed;
\* once a guard has failed (the request has ended with an error) no service
\* call of any kind is made for it any more.
C5_MutationOnlyAfterGuards == [](C5_State) /\ [][C5_Step]_vars

\* a mutation made after a lookup, and a request stopped by a failed guard
\* after its lookup
C5_Witness ==
  \E r1, r2 \in Requests :
    /\ req[r1].op = "patchUser" /\ MutationCalls(r1) = {2}
    /\ req[r2].op = "createUser" /\ EndsWithError(r2, "EMAIL_ALREADY_TAKEN")
    /\ Len(calls[r2]) = 1

\* C6: getUser for an id whose lookup returns no record ends with
\* UNPROCESSABLE_ENTITY "Unknown user" passed to next; a lookup that throws
\* has its error passed to next; a found record is returned with status 200;
\* on no path does an error escape the handler.
C6_GetUserOutcome ==
  \A r \in Requests :
    (Started(r) /\ req[r].op = "getUser")
      => /\ rejected[r] = <<>>
         /\ Len(calls[r]) = 1 /\ calls[r][1].args = <<req[r].id>>
         /\ LET result == calls[r][1].result IN
            /\ result = Pending => Outcomes(r) = 0
            /\ result = Returned(Null)
                 => /\ EndsWithError(r, "UNPROCESSABLE_ENTITY")
                    /\ nexted[r][1].message = "Unknown user"
            /\ result = Threw => (Done(r) /\ sent[r] = <<>> /\ nexted[r] = <<ServiceException>>)
            /\ (result.t = "returned" /\ result # Returned(Null)) => EndsWith200(r, result.v)

C6_Witness ==
  \E r1, r2 \in Requests :
    /\ req[r1].op = "getUser" /\ Done(r1) /\ calls[r1][1].result = Returned(Null)
    /\ req[r2].op = "getUser" /\ Done(r2) /\ calls[r2][1].result = Returned(InitUsers[1])

\* C8: patchUser reports the first guard that fails in the order credential
\* check (INVALID_PASSWORD), newPassword # confirmNewPassword
\* (INVALID_PASSWORD), oldPassword = newPassword (UNPROCESSABLE_ENTITY), patch
\* service failure (INVALID_CREDENTIALS); a request with newPassword #
\* confirmNewPassword and oldPassword = newPassword never ends with
\* UNPROCESSABLE_ENTITY, and INVALID_CREDENTIALS comes only from a failed
\* patch service call.
C8_PatchGuardOrder ==
  /\ \A r \in Requests :
       (Done(r) /\ req[r].op = "patchUser")
         => LET b == req[r].body
                check == calls[r][1].result
            IN /\ calls[r][1].fn = "checkLoginCredential"
               /\ check = Threw => nexted[r] = <<ServiceException>>
               /\ check = Returned(TRUE)
                    => /\ EndsWithError(r, "INVALID_PASSWORD")
                       /\ nexted[r][1].message = "Wrong password!"
                       /\ Len(calls[r]) = 1
               /\ (check = Returned(FALSE) /\ b.newpassword # b.confirmnewpassword)
                    => /\ EndsWithError(r, "INVALID_PASSWORD")
                       /\ nexted[r][1].message # "Wrong password!"
                       /\ Len(calls[r]) = 1
               /\ (check = Returned(FALSE) /\ b.newpassword = b.confirmnewpassword
                     /\ b.oldpassword = b.newpassword)
                    => (EndsWithError(r, "UNPROCESSABLE_ENTITY") /\ Len(calls[r]) = 1)
               /\ (check = Returned(FALSE) /\ b.newpassword = b.confirmnewpassword
                     /\ b.oldpassword # b.newpassword)
                    => /\ Len(calls[r]) = 2 /\ calls[r][2].fn = "patchUser"
                       /\ calls[r][2].result = Returned(FALSE)
                            => EndsWithError(r, "INVALID_CREDENTIALS")
                       /\ calls[r][2].result = Returned(TRUE)
                            => EndsWith200(r, [id |-> req[r].id])
                       /\ calls[r][2].result = Threw => nexted[r] = <<ServiceException>>
               /\ (b.newpassword # b.confirmnewpassword /\ b.oldpassword = b.newpassword)
                    => ~EndsWithError(r, "UNPROCESSABLE_ENTITY")
  /\ \A r \in Requests :
       (\E i \in 1..Len(nexted[r]) : nexted[r][i].kind = "INVALID_CREDENTIALS")
         => /\ req[r].op = "patchUser"
            /\ Len(calls[r]) = 2 /\ calls[r][2].fn = "patchUser"
            /\ calls[r][2].result = Returned(FALSE)

C8_Witness ==
  \E r1, r2 \in Requests :
    /\ req[r1].op = "patchUser" /\ Done(r1)
    /\ req[r1].body.newpassword # req[r1].body.confirmnewpassword
    /\ req[r1].body.oldpassword = req[r1].body.newpassword
    /\ calls[r1][1].result = Returned(FALSE)
    /\ EndsWithError(r1, "INVALID_PASSWORD")
    /\ EndsWithError(r2, "INVALID_CREDENTIALS")

C9_State ==
  \A r \in Requests :
    /\ Outcomes(r) <= 1
    /\ rejected[r] = <<>>
    /\ Done(r) <=> Outcomes(r) = 1
    /\ \A i \in 1..Len(sent[r]) : sent[r][i].status = 200
    /\ (\E i \in CallIndexes(r) : calls[r][i].result = Threw)
         => (Done(r) /\ sent[r] = <<>> /\ nexted[r] = <<ServiceException>>)

\* C9: every request to any of the six handlers, given that each awaited
\* service call eventually returns or throws, reaches exactly one terminal
\* outcome: one status-200 response or one error passed to next, never both
\* and never neither; an exception thrown by a service call is that error.
C9_OneTerminalOutcome ==
  /\ [](C9_State)
  /\ \A r \in Requests : (Started(r) ~> (Done(r) /\ Outcomes(r) = 1))

C9_Witness ==
  \E r1, r2 \in Requests :
    /\ Done(r1) /\ Len(sent[r1]) = 1 /\ nexted[r1] = <<>>
    /\ Done(r2) /\ sent[r2] = <<>> /\ nexted[r2] = <<ServiceException>>
    /\ calls[r2][Len(calls[r2])].result = Threw

SchemaShapedUpdate(r) ==
  /\ req[r].op = "updateUser"
  /\ req[r].body.password = Undefined
  /\ req[r].body.confirmpassword = Undefined

\* C10: an updateUser request whose body has only the update schema's
\* fields (no password, no confirm password) passes the password guard: the
\* email lookup is made; with an unregistered email and a successful service
\* update it returns {id} with status 200; the only error kinds the handler
\* raises for it are EMAIL_ALREADY_TAKEN and UNPROCESSABLE_ENTITY (an
\* exception thrown by the service is forwarded as it is); and
\* usersService.updateUser receives only id, name and email.
C10_UpdateWithoutPasswords ==
  \A r \in Requests :
    SchemaShapedUpdate(r)
      => /\ Len(calls[r]) >= 1
         /\ calls[r][1].fn = "checkUserEmail"
         /\ \A i \in 1..Len(nexted[r]) :
              \/ nexted[r][i].kind \in {"EMAIL_ALREADY_TAKEN", "UNPROCESSABLE_ENTITY"}
              \/ /\ nexted[r][i] = ServiceException
                 /\ calls[r][Len(calls[r])].result = Threw
         /\ \A i \in CallIndexes(r) :
              calls[r][i].fn = "updateUser"
                => calls[r][i].args = <<req[r].id, req[r].body.name, req[r].body.email>>
         /\ (/\ Len(calls[r]) = 2
             /\ calls[r][1].result = Returned(FALSE)
             /\ calls[r][2].result = Returned(TRUE))
              => EndsWith200(r, [id |-> req[r].id])

C10_Witness ==
  \E r \in Requests :
    /\ SchemaShapedUpdate(r)
    /\ EndsWith200(r, [id |-> req[r].id])
    /\ Len(calls[r]) = 2 /\ calls[r][2].args = <<UserId(1), Bob, EmailB>>

PasswordFields == {"password", "confirmpassword", "oldpassword", "newpassword", "confirmnewpassword"}
HasAt(str) == \E i \in 1..Len(str) : str[i] = "@"

\* C7: for each field a schema declares, a name that is empty or longer
\* than 100 characters, an email without "@", and a password field shorter
\* than 6 or longer than 32 characters are rejected; every name and password
\* string within those bounds is accepted; each field's verdict is decided by
\* that field alone, so by no password match, email uniqueness or credential.
C7_SchemaRules ==
  schemaOp # "none"
    => /\ schemaVerdict \subseteq DOMAIN schemaBody
       /\ \A f \in DOMAIN schemaBody :
            LET x == schemaBody[f] IN
            IsString(x)
              => /\ f = "name" => (f \in schemaVerdict <=> (Len(x.v) = 0 \/ Len(x.v) > 100))
                 /\ f \in PasswordFields
                      => (f \in schemaVerdict <=> (Len(x.v) < 6 \/ Len(x.v) > 32))
                 /\ (f = "email" /\ ~HasAt(x.v)) => f \in schemaVerdict

\* a password of 33 characters is rejected, and the differing confirm
\* password next to it is not
C7_Witness ==
  /\ schemaOp = "createUser"
  /\ schemaBody.password = Str(Rep("a", 33))
  /\ schemaBody.confirmpassword = PwB
  /\ schemaVerdict = {"password"}

====
